---- MODULE Spec2Model ----
\* A model of the S3 file of src/s3/file.go: the write buffer, the local temp
\* file that serves reads, Close, Delete and the wait for a written object to
\* become visible (waitUntilFileExists).
EXTENDS Integers, Sequences, FiniteSets, TLC

\* ---------------------------------------------------------------- bounds
\* Largest number of bytes one Write call carries.
MaxPayload == 1
\* Largest number of bytes written to one write buffer.
MaxBuf == 2
\* Largest number of temp files left behind that no handle refers to.
MaxLeaks == 1
\* Largest retry budget handed to waitUntilFileExists on its own.
MaxBudget == 3

\* ------------------------------------------------------ program constants
\* The retry budget Close passes to waitUntilFileExists.
CloseRetries == 5

Drop(s, n) == SubSeq(s, n + 1, Len(s))
Min(a, b) == IF a < b THEN a ELSE b

\* ------------------------------------------------------------------ state
\* One File handle on one (bucket, key), the object of that key in the store,
\* and the local temp files.
VARIABLES
    store,        \* the remote object: [exists, data]
    tempFile,     \* File.tempFile and the temp file it names: [onDisk, open, data, pos, src]
    writeBuffer,  \* File.writeBuffer: [alloc, buf], buf the bytes not yet read from it
    leaked,       \* the temp files on disk that the handle does not refer to
    written,      \* the payloads of the Write calls on the buffer, one after another
    resubmit,     \* the write buffer outlived a failed Upload
    got,          \* the bytes Read returned since the temp file was made: [seq, bytes]
    expect,       \* what the store-write that made the object was given to carry
    last,         \* what the last call did: its result and the requests it issued
    poll          \* the last call of waitUntilFileExists on its own

vars == <<store, tempFile, writeBuffer, leaked, written, resubmit, got, expect, last, poll>>

NoExpect == [valid |-> FALSE, data |-> <<>>, own |-> FALSE]
\* A nil File.tempFile.
NoFile == [set |-> FALSE, onDisk |-> FALSE, open |-> FALSE, data |-> <<>>, pos |-> 0,
           src |-> NoExpect]
NilBuffer == [alloc |-> FALSE, buf |-> <<>>]
Absent == [exists |-> FALSE, data |-> <<>>]
NoGot == [seq |-> FALSE, bytes |-> <<>>]
NoErr == <<>>
\* The file a copy is made to: open when it was written to and not closed
\* since, done when the copy to it is complete.
NoTarget == [open |-> FALSE, done |-> FALSE, data |-> <<>>]
NoPoll == [called |-> FALSE, mock |-> FALSE, retries |-> 0, hs |-> <<>>,
           err |-> "nil", calls |-> 0, sleeps |-> 0]

\* The observation of one call; every call fills in what it did.
Obs(op) ==
    [op |-> op, err |-> NoErr, n |-> 0, data |-> <<>>,
     heads |-> 0, gets |-> 0, puts |-> 0, dels |-> 0, body |-> <<>>,
     hadTemp |-> FALSE, hadBuf |-> FALSE, accum |-> <<>>, pollErr |-> "none",
     head |-> "", found |-> FALSE, closeErr |-> NoErr,
     family |-> "", copies |-> 0, streamed |-> FALSE, target |-> NoTarget,
     newFile |-> FALSE, copyErr |-> NoErr]

Init ==
    /\ store = Absent
    /\ tempFile = NoFile
    /\ writeBuffer = NilBuffer
    /\ leaked = 0
    /\ written = <<>>
    /\ resubmit = FALSE
    /\ got = NoGot
    /\ expect = NoExpect
    /\ last = Obs("newFile")
    /\ poll = NoPoll

\* ---------------------------------------------------------------- newFile
\* The caller drops the handle and makes a new one on the same bucket and key.
\* It closed the temp file of the old handle first.
NewFile ==
    /\ tempFile = NoFile
    /\ tempFile' = NoFile
    /\ writeBuffer' = NilBuffer
    /\ written' = <<>>
    /\ resubmit' = FALSE
    /\ got' = NoGot
    /\ expect' = [expect EXCEPT !.own = FALSE]
    /\ last' = Obs("newFile")
    /\ UNCHANGED <<store, leaked, poll>>

\* ------------------------------------------------------------------ Write
\* The payloads a caller hands to Write. The code never looks at the value of
\* a byte, so a byte is named by its place in what the handle was given to
\* write since its buffer was made: the payloads 1, 2 then 3 make 1 2 3 only
\* when they are kept whole and in order.
Payloads == {[i \in 1..m |-> Len(written) + i] : m \in 0..MaxPayload}

\* The buffer made from the first payload, which is then written to it again.
BufferAfterWrite_Seeded(wb, data) ==
    [alloc |-> TRUE, buf |-> (IF wb.alloc THEN wb.buf ELSE data) \o data]

\* bytes.NewBuffer([]byte{}) when the handle has no buffer, then
\* writeBuffer.Write(data).
BufferAfterWrite(wb, data) ==
    [alloc |-> TRUE, buf |-> (IF wb.alloc THEN wb.buf ELSE <<>>) \o data]

Write(data) ==
    /\ Len(written) + Len(data) <= MaxBuf
    /\ writeBuffer' = BufferAfterWrite(writeBuffer, data)
    /\ written' = written \o data
    /\ last' = [Obs("Write") EXCEPT !.n = Len(data)]
    /\ UNCHANGED <<store, tempFile, leaked, resubmit, got, expect, poll>>

\* ----------------------------------------------------------------- Exists
\* What HeadObject answers: the object's head, or an awserr.Error with a code.
HeadOutcomes == {"OK", "NoSuchKey", "NotFound", "RequestError"}

\* Every failure of HeadObject taken for a missing object.
Exists_AnyErrorIsNotFound(head) ==
    IF head # "OK" THEN [found |-> FALSE, err |-> "nil"]
    ELSE [found |-> TRUE, err |-> "nil"]

\* Only the NoSuchKey code taken for a missing object.
Exists_OnlyNoSuchKey(head) ==
    IF head = "NoSuchKey" THEN [found |-> FALSE, err |-> "nil"]
    ELSE IF head # "OK" THEN [found |-> FALSE, err |-> head]
    ELSE [found |-> TRUE, err |-> "nil"]

NotFoundAnswer(h) == h = "NotFound" \/ h = "NoSuchKey"

\* File.Exists on a HeadObject answer: (found, err).
Exists(head) ==
    LET code == IF head # "OK" THEN head ELSE ""
    IN  IF head # "OK" /\ (code = "NoSuchKey" \/ code = "NotFound")
        THEN [found |-> FALSE, err |-> "nil"]
        ELSE IF head # "OK"
        THEN [found |-> FALSE, err |-> head]
        ELSE [found |-> TRUE, err |-> "nil"]

\* ---------------------------------------------------- waitUntilFileExists
\* The loop giving up one round late.
RECURSIVE PollLoop_OneMore(_, _, _)
PollLoop_OneMore(retries, hs, retryCount) ==
    IF retryCount > retries
    THEN [err |-> "Timeout", calls |-> retryCount, sleeps |-> retryCount]
    ELSE LET e == Exists(hs[retryCount + 1])
         IN  IF e.err # "nil"
             THEN [err |-> "PollError", calls |-> retryCount + 1, sleeps |-> retryCount]
             ELSE IF e.found
             THEN [err |-> "nil", calls |-> retryCount + 1, sleeps |-> retryCount]
             ELSE PollLoop_OneMore(retries, hs, retryCount + 1)

\* The for loop: hs[i] is what HeadObject answers to the i-th Exists call.
RECURSIVE PollLoop(_, _, _)
PollLoop(retries, hs, retryCount) ==
    IF retryCount = retries
    THEN [err |-> "Timeout", calls |-> retryCount, sleeps |-> retryCount]
    ELSE LET e == Exists(hs[retryCount + 1])
         IN  IF e.err # "nil"
             THEN [err |-> "PollError", calls |-> retryCount + 1, sleeps |-> retryCount]
             ELSE IF e.found
             THEN [err |-> "nil", calls |-> retryCount + 1, sleeps |-> retryCount]
             ELSE PollLoop(retries, hs, retryCount + 1)

\* mock: the file is a mocks.ReadWriteFile.
waitUntilFileExists(mock, retries, hs) ==
    IF mock THEN [err |-> "nil", calls |-> 0, sleeps |-> 0]
    ELSE IF retries = -1 THEN [err |-> "nil", calls |-> 0, sleeps |-> 0]
    ELSE PollLoop(retries, hs, 0)

\* The answers HeadObject may give to a run of n calls: k NotFound answers,
\* then one answer repeated, for k none, one and all n. The loop stops at the
\* first answer that is not a not-found, so these are its three kinds of run:
\* decided at the first call, decided after a sleep, never decided. The head
\* of an object the store does not hold is never returned.
HeadScripts(n, exists) ==
    {[i \in 1..n |-> IF i <= k THEN "NotFound" ELSE x] :
        k \in {0, Min(1, n), n}, x \in (IF exists THEN {"OK"} ELSE {}) \cup {"RequestError"}}

\* ------------------------------------------------------------------ Close
RemoveOutcomes == {"ok", "notexist", "err"}
UploadOutcomes == {"ok", "err"}

\* errs.OrNil(): nil when nothing was appended, the collected errors otherwise.
OrNil(errs) == IF Len(errs) > 0 THEN errs ELSE NoErr

\* The handle and its object as one value, for the operations that are run
\* one after another inside Copy and Move.
Handle ==
    [tempFile |-> tempFile, writeBuffer |-> writeBuffer, written |-> written,
     resubmit |-> resubmit, got |-> got, store |-> store, expect |-> expect]

\* File.Close on the handle h, its write buffer being wb. rm is what os.Remove
\* answers, up what Upload answers, d the bytes Upload read from the buffer
\* before it failed, hs what HeadObject answers during the wait.
CloseOn(h, wb, rm, up, d, hs) ==
    LET hasTemp == h.tempFile # NoFile
        \* the deferred f.tempFile.Close
        closeErrs == IF hasTemp /\ ~h.tempFile.open THEN <<"ErrClosed">> ELSE <<>>
        rmFail == hasTemp /\ rm = "err"
        doUpload == ~rmFail /\ wb.alloc
        upFail == doUpload /\ up = "err"
        doPoll == ~rmFail /\ ~upFail
        wait == waitUntilFileExists(FALSE, CloseRetries, hs)
        errs == (IF rmFail THEN <<"RemoveErr">> ELSE <<>>)
                \o (IF upFail THEN <<"UploadErr">> ELSE <<>>)
                \o closeErrs
    IN  [tempFile |-> IF rmFail THEN [h.tempFile EXCEPT !.open = FALSE] ELSE NoFile,
         writeBuffer |-> IF rmFail THEN wb
                         ELSE IF upFail THEN [alloc |-> TRUE, buf |-> Drop(wb.buf, d)]
                         ELSE NilBuffer,
         written |-> IF rmFail \/ upFail THEN h.written ELSE <<>>,
         resubmit |-> IF rmFail THEN h.resubmit ELSE upFail,
         got |-> IF rmFail THEN h.got ELSE NoGot,
         store |-> IF doUpload /\ ~upFail
                   THEN [exists |-> TRUE, data |-> wb.buf]
                   ELSE h.store,
         expect |-> IF doUpload /\ ~upFail
                    THEN IF h.resubmit THEN NoExpect
                         ELSE [valid |-> TRUE, data |-> h.written, own |-> TRUE]
                    ELSE h.expect,
         err |-> OrNil(errs),
         puts |-> IF doUpload THEN 1 ELSE 0,
         body |-> IF doUpload THEN wb.buf ELSE <<>>,
         heads |-> IF doPoll THEN wait.calls ELSE 0,
         pollErr |-> IF doPoll THEN wait.err ELSE "none"]

CloseResult(wb, rm, up, d, hs) == CloseOn(Handle, wb, rm, up, d, hs)

\* What os.Remove may answer: NotExist stands for a temp file that was
\* removed behind the program's back.
RemoveForOn(h) == IF h.tempFile = NoFile THEN {"ok"} ELSE RemoveOutcomes

RemoveFor == RemoveForOn(Handle)

\* What Upload may answer, and how many bytes of the buffer it read before it
\* failed: <<up, d>>.
UploadForOn(h, wb, rm) ==
    IF ~wb.alloc \/ (h.tempFile # NoFile /\ rm = "err") THEN {<<"ok", 0>>}
    ELSE {<<"ok", 0>>} \cup {<<"err", d>> : d \in 0..Len(wb.buf)}

UploadFor(wb, rm) == UploadForOn(Handle, wb, rm)

\* What HeadObject may answer during the wait of a Close that gets that far.
HeadsForOn(h, wb, rm, up) ==
    IF (h.tempFile # NoFile /\ rm = "err") \/ (wb.alloc /\ up = "err")
    THEN HeadScripts(0, FALSE)
    ELSE HeadScripts(CloseRetries, h.store.exists \/ wb.alloc)

HeadsFor(wb, rm, up) == HeadsForOn(Handle, wb, rm, up)

\* File.Close, answered rm by os.Remove, u by Upload and hs by HeadObject.
CloseWith(rm, u, hs) ==
        LET r == CloseResult(writeBuffer, rm, u[1], u[2], hs)
        IN  /\ tempFile' = r.tempFile
            /\ writeBuffer' = r.writeBuffer
            /\ written' = r.written
            /\ resubmit' = r.resubmit
            /\ got' = r.got
            /\ store' = r.store
            /\ expect' = r.expect
            /\ last' = [Obs("Close") EXCEPT
                            !.err = r.err, !.puts = r.puts, !.body = r.body,
                            !.heads = r.heads, !.pollErr = r.pollErr,
                            !.hadTemp = tempFile # NoFile,
                            !.hadBuf = writeBuffer.alloc,
                            !.accum = written]
            /\ UNCHANGED <<leaked, poll>>

Close ==
    \E rm \in RemoveFor : \E u \in UploadFor(writeBuffer, rm) :
    \E hs \in HeadsFor(writeBuffer, rm, u[1]) : CloseWith(rm, u, hs)

\* ----------------------------------------------------------------- Delete
DeleteOutcomes == {"ok", "err"}

\* The pending bytes flushed before the object is deleted.
DeleteBuffer_Kept(wb) == wb

\* The write buffer Delete leaves for its Close: f.writeBuffer = nil.
DeleteBuffer(wb) == NilBuffer

\* The object deleted whatever Close returned.
DeleteProceeds_Always(closeErr) == TRUE

\* Delete goes on to DeleteObject only when Close returned nil.
DeleteProceeds(closeErr) == closeErr = NoErr

\* File.Delete on the handle h: rm and hs are the answers to its Close, del
\* the answer of DeleteObject.
DeleteOn(h, rm, hs, del) ==
    LET r == CloseOn(h, DeleteBuffer(h.writeBuffer), rm, "ok", 0, hs)
        closed == DeleteProceeds(r.err)
    IN  [tempFile |-> r.tempFile,
         writeBuffer |-> r.writeBuffer,
         written |-> <<>>,
         resubmit |-> FALSE,
         got |-> r.got,
         store |-> IF closed /\ del = "ok" THEN Absent ELSE h.store,
         expect |-> IF closed /\ del = "ok" THEN NoExpect ELSE h.expect,
         err |-> IF ~closed THEN r.err
                 ELSE IF del = "err" THEN <<"DeleteErr">> ELSE NoErr,
         closeErr |-> r.err,
         puts |-> r.puts, body |-> r.body, heads |-> r.heads, pollErr |-> r.pollErr,
         dels |-> IF closed THEN 1 ELSE 0]

\* The answers Delete may get on the handle h: DeleteObject answers only when
\* it is sent.
DeleteInputs(h) ==
    {i \in [rm : RemoveForOn(h), hs : HeadScripts(CloseRetries, h.store.exists)
                                      \cup HeadScripts(0, FALSE),
            del : DeleteOutcomes] :
        /\ i.hs \in HeadsForOn(h, DeleteBuffer(h.writeBuffer), i.rm, "ok")
        /\ DeleteOn(h, i.rm, i.hs, i.del).dels = 0 => i.del = "ok"}

Delete ==
    \E i \in DeleteInputs(Handle) :
        LET r == DeleteOn(Handle, i.rm, i.hs, i.del)
        IN  /\ tempFile' = r.tempFile
            /\ writeBuffer' = r.writeBuffer
            /\ written' = r.written
            /\ resubmit' = r.resubmit
            /\ got' = r.got
            /\ store' = r.store
            /\ expect' = r.expect
            /\ last' = [Obs("Delete") EXCEPT
                            !.err = r.err, !.puts = r.puts, !.body = r.body,
                            !.heads = r.heads, !.pollErr = r.pollErr,
                            !.dels = r.dels, !.closeErr = r.closeErr,
                            !.hadTemp = tempFile # NoFile,
                            !.hadBuf = writeBuffer.alloc,
                            !.accum = written]
            /\ UNCHANGED <<leaked, poll>>

\* ------------------------------------------------------------ Read, Seek
MirrorOutcomes == {"ok", "TempFileErr", "GetErr", "CopyErr", "SeekErr"}

\* copyToLocalTempReader with outcome mo: the temp file it returns (NoFile
\* with an error), the temp files it made and returns to nobody, and the
\* GetObject requests. The content of a temp file left behind is not modelled.
copyToLocalTempReader(mo) ==
    IF mo = "TempFileErr"
    THEN [file |-> NoFile, leaks |-> 0, err |-> <<"TempFileErr">>, gets |-> 0]
    ELSE IF ~store.exists
    THEN [file |-> NoFile, leaks |-> 1, err |-> <<"NoSuchKey">>, gets |-> 1]
    ELSE IF mo # "ok"
    THEN [file |-> NoFile, leaks |-> 1, err |-> <<mo>>, gets |-> 1]
    ELSE [file |-> [set |-> TRUE, onDisk |-> TRUE, open |-> TRUE, data |-> store.data,
                    pos |-> 0, src |-> expect],
          leaks |-> 0, err |-> NoErr, gets |-> 1]

\* The object fetched on every call.
checkTempFile_Always(mo) == copyToLocalTempReader(mo)

\* checkTempFile: the handle's temp file, made first when the handle has none.
checkTempFile(mo) ==
    IF tempFile = NoFile
    THEN copyToLocalTempReader(mo)
    ELSE [file |-> tempFile, leaks |-> 0, err |-> NoErr, gets |-> 0]

MirrorFor == IF tempFile # NoFile THEN {"ok"} ELSE MirrorOutcomes

\* os.File.Read of up to n bytes: <<bytes, err, new position>>.
FileRead(t, n) ==
    IF ~t.open THEN <<<<>>, <<"ErrClosed">>, t.pos>>
    ELSE IF t.pos >= Len(t.data) THEN <<<<>>, <<"EOF">>, t.pos>>
    ELSE LET m == Min(n, Len(t.data) - t.pos)
         IN  <<SubSeq(t.data, t.pos + 1, t.pos + m), NoErr, t.pos + m>>

Read(n) ==
    \E mo \in MirrorFor :
        LET c == checkTempFile(mo)
            made == tempFile = NoFile /\ c.file # NoFile
            g0 == IF made THEN [seq |-> TRUE, bytes |-> <<>>] ELSE got
        IN  /\ leaked + c.leaks <= MaxLeaks
            /\ leaked' = leaked + c.leaks
            /\ IF c.err # NoErr
               THEN /\ tempFile' = c.file
                    /\ got' = got
                    /\ last' = [Obs("Read") EXCEPT !.err = c.err, !.gets = c.gets]
               ELSE LET rd == FileRead(c.file, n)
                    IN  /\ tempFile' = [c.file EXCEPT !.pos = rd[3]]
                        /\ got' = [g0 EXCEPT !.bytes = IF g0.seq THEN @ \o rd[1] ELSE @]
                        /\ last' = [Obs("Read") EXCEPT !.err = rd[2], !.gets = c.gets,
                                        !.n = Len(rd[1]), !.data = rd[1]]
            /\ UNCHANGED <<store, writeBuffer, written, resubmit, expect, poll>>

\* os.File.Seek: <<new position, err>>. whence 0, 1, 2 = start, current, end.
FileSeek(t, offset, whence) ==
    LET base == IF whence = 0 THEN 0 ELSE IF whence = 1 THEN t.pos ELSE Len(t.data)
    IN  IF ~t.open THEN <<t.pos, <<"ErrClosed">>>>
        ELSE IF base + offset < 0 THEN <<t.pos, <<"EINVAL">>>>
        ELSE <<base + offset, NoErr>>

Seek(offset, whence) ==
    \E mo \in MirrorFor :
        LET c == checkTempFile(mo)
        IN  /\ leaked + c.leaks <= MaxLeaks
            /\ leaked' = leaked + c.leaks
            /\ IF c.err # NoErr
               THEN /\ tempFile' = c.file
                    /\ got' = got
                    /\ last' = [Obs("Seek") EXCEPT !.err = c.err, !.gets = c.gets]
               ELSE LET sk == FileSeek(c.file, offset, whence)
                    IN  /\ sk[1] <= MaxBuf
                        /\ tempFile' = [c.file EXCEPT !.pos = sk[1]]
                        /\ got' = NoGot
                        /\ last' = [Obs("Seek") EXCEPT !.err = sk[2], !.gets = c.gets,
                                        !.n = IF sk[2] = NoErr THEN sk[1] ELSE 0]
            /\ UNCHANGED <<store, writeBuffer, written, resubmit, expect, poll>>

\* ------------------------------------------------------------ Copy, Move
\* The target of a copy is a File of this package ("s3") or of another
\* backend ("other"); a location has the Scheme of this package or another.
Families == {"s3", "other"}
CopyOutcomes == {"ok", "err"}
WriteOutcomes == {"ok", "err"}
TargetCloseOutcomes == {"ok", "err"}
NewFileOutcomes == {"ok", "err"}

\* The scripts whose first answer ends the wait. Close returns nil whatever
\* its wait returns, so a copy or a move is the same on every script; they
\* are run on these.
Steady(S) == {hs \in S : Len(hs) = 0 \/ ~NotFoundAnswer(hs[1])}

\* The inputs a copy does not get to ask for.
NoInput ==
    [co |-> "ok", nf |-> "ok", mo |-> "ok", w |-> "ok", tc |-> "ok",
     rm |-> "ok", up |-> "ok", d |-> 0, hs |-> <<>>]

\* What a copy did, as its callers see it.
Copied(h, err) ==
    [h |-> h, err |-> err, leaks |-> 0, newFile |-> FALSE, target |-> NoTarget,
     copies |-> 0, streamed |-> FALSE, gets |-> 0, puts |-> 0]

\* copyWithinS3ToFile: one CopyObject, answered co.
copyWithinS3ToFile(co) ==
    IF co = "ok"
    THEN [Copied(Handle, NoErr) EXCEPT
            !.copies = 1, !.target = [open |-> FALSE, done |-> TRUE, data |-> store.data]]
    ELSE [Copied(Handle, <<"CopyObjectErr">>) EXCEPT !.copies = 1]

\* copyWithinS3ToLocation: one CopyObject, then the handle of the new object
\* from the location's file system, answered nf.
copyWithinS3ToLocation(co, nf) ==
    LET c == copyWithinS3ToFile(co)
    IN  IF c.err # NoErr THEN c
        ELSE IF nf = "err" THEN [c EXCEPT !.err = <<"NewFileErr">>]
        ELSE [c EXCEPT !.newFile = TRUE]

\* CopyObject fails on an object the bucket does not hold.
CopyFor == IF store.exists THEN CopyOutcomes ELSE {"err"}

\* io.Copy(target, f): f.Read until EOF, what was read written to the target.
\* mo is the outcome of the fetch, w what the target's Write answers; a
\* failing Write accepts nothing.
StreamCopy(mo, w) ==
    LET c == checkTempFile(mo)
        made == tempFile = NoFile /\ c.file # NoFile
        g0 == IF made THEN [seq |-> TRUE, bytes |-> <<>>] ELSE got
        base == [Copied(Handle, NoErr) EXCEPT !.streamed = TRUE, !.leaks = c.leaks,
                                              !.gets = c.gets]
    IN  IF c.err # NoErr
        THEN [base EXCEPT !.h.tempFile = c.file, !.err = c.err]
        ELSE LET rd == FileRead(c.file, MaxBuf)
                 after == [Handle EXCEPT
                             !.tempFile = [c.file EXCEPT !.pos = rd[3]],
                             !.got = [g0 EXCEPT !.bytes = IF g0.seq THEN @ \o rd[1] ELSE @]]
             IN  IF rd[2] = <<"ErrClosed">>
                 THEN [base EXCEPT !.h = after, !.err = rd[2]]
                 ELSE IF rd[1] = <<>>
                 THEN [base EXCEPT !.h = after]
                 ELSE IF w = "err"
                 THEN [base EXCEPT !.h = after, !.err = <<"WriteErr">>,
                                   !.target = [open |-> TRUE, done |-> FALSE, data |-> <<>>]]
                 ELSE [base EXCEPT !.h = after,
                                   !.target = [open |-> TRUE, done |-> FALSE, data |-> rd[1]]]

\* vfs.TouchCopy(targetFile, f): the generic stream copy.
TouchCopy(mo, w) == StreamCopy(mo, w)

\* After the stream copy s: the target closed, then the source closed, the
\* first error returned.
ThenClose(s, i) ==
    IF s.err # NoErr THEN s
    ELSE IF i.tc = "err"
    THEN [s EXCEPT !.err = <<"TargetCloseErr">>, !.target.open = FALSE]
    ELSE LET r == CloseOn(s.h, s.h.writeBuffer, i.rm, i.up, i.d, i.hs)
             t == [s.target EXCEPT !.open = FALSE, !.done = TRUE]
         IN  [s EXCEPT !.h = [tempFile |-> r.tempFile, writeBuffer |-> r.writeBuffer,
                              written |-> r.written, resubmit |-> r.resubmit,
                              got |-> r.got, store |-> r.store, expect |-> r.expect],
                       !.err = r.err, !.target = t, !.puts = r.puts]

\* The answers the two closes after the stream copy s may get.
CloseInputs(s, i) ==
    IF s.err # NoErr THEN {i}
    ELSE {[i EXCEPT !.tc = "err"]} \cup
         UNION {UNION {{[i EXCEPT !.rm = rm, !.up = u[1], !.d = u[2], !.hs = hs] :
                           hs \in Steady(HeadsForOn(s.h, s.h.writeBuffer, rm, u[1]))} :
                       u \in UploadForOn(s.h, s.h.writeBuffer, rm)} :
                rm \in RemoveForOn(s.h)}

\* The answers a stream copy and the closes after it may get.
StreamInputs ==
    UNION {LET s == StreamCopy(mo, w)
           IN  IF w = "err" /\ s.err # <<"WriteErr">> THEN {}
               ELSE CloseInputs(s, [NoInput EXCEPT !.mo = mo, !.w = w]) :
               mo \in MirrorFor, w \in WriteOutcomes}

\* Every copy made by streaming.
CopyToFileResult_AlwaysStream(family, i) == ThenClose(TouchCopy(i.mo, i.w), i)

\* File.CopyToFile to a target of the given family.
CopyToFileResult(family, i) ==
    IF family = "s3" THEN copyWithinS3ToFile(i.co)
    ELSE ThenClose(TouchCopy(i.mo, i.w), i)

CopyToFileInputs(family) ==
    IF family = "s3" THEN {[NoInput EXCEPT !.co = co] : co \in CopyFor}
    ELSE StreamInputs

\* File.CopyToLocation to a location of the given family.
CopyToLocationResult(family, i) ==
    IF family = "s3" THEN copyWithinS3ToLocation(i.co, i.nf)
    ELSE IF i.nf = "err" THEN Copied(Handle, <<"NewFileErr">>)
    ELSE LET c == ThenClose(StreamCopy(i.mo, i.w), i)
         IN  [c EXCEPT !.newFile = (c.err = NoErr)]

CopyToLocationInputs(family) ==
    IF family = "s3"
    THEN {[NoInput EXCEPT !.co = co, !.nf = nf] :
             co \in CopyFor, nf \in NewFileOutcomes} \ {[NoInput EXCEPT !.co = "err", !.nf = "err"]}
    ELSE {[NoInput EXCEPT !.nf = "err"]} \cup StreamInputs

\* The handle after a copy or a move, and what the call is seen to have done.
Returned(op, family, c, dl, err) ==
    /\ leaked + c.leaks <= MaxLeaks
    /\ leaked' = leaked + c.leaks
    /\ tempFile' = dl.tempFile
    /\ writeBuffer' = dl.writeBuffer
    /\ written' = dl.written
    /\ resubmit' = dl.resubmit
    /\ got' = dl.got
    /\ store' = dl.store
    /\ expect' = dl.expect
    /\ last' = [Obs(op) EXCEPT
                    !.err = err, !.family = family, !.copyErr = c.err,
                    !.copies = c.copies, !.streamed = c.streamed, !.gets = c.gets,
                    !.puts = c.puts, !.dels = dl.dels, !.closeErr = dl.closeErr,
                    !.target = c.target, !.newFile = c.newFile,
                    !.hadTemp = tempFile # NoFile, !.hadBuf = writeBuffer.alloc]
    /\ UNCHANGED poll

\* A copy that is not followed by Delete.
NoDelete(h) ==
    [tempFile |-> h.tempFile, writeBuffer |-> h.writeBuffer, written |-> h.written,
     resubmit |-> h.resubmit, got |-> h.got, store |-> h.store, expect |-> h.expect,
     dels |-> 0, closeErr |-> NoErr, err |-> NoErr]

CopyToFile(family) ==
    \E i \in CopyToFileInputs(family) :
        LET c == CopyToFileResult(family, i)
        IN  Returned("CopyToFile", family, c, NoDelete(c.h), c.err)

CopyToLocation(family) ==
    \E i \in CopyToLocationInputs(family) :
        LET c == CopyToLocationResult(family, i)
        IN  Returned("CopyToLocation", family, c, NoDelete(c.h), c.err)

\* The source deleted whatever the copy returned.
MoveDeletes_Always(copyErr) == TRUE

\* A move goes on to Delete only when the copy returned nil.
MoveDeletes(copyErr) == copyErr = NoErr

\* The answers the Delete of a move may get.
MoveDeleteInputs(h) == {j \in DeleteInputs(h) : j.hs \in Steady({j.hs})}

\* The handle lost when Delete fails.
MoveToLocationHandle_OnlyOnSuccess(newFile, delErr) == newFile /\ delErr = NoErr

\* MoveToLocation returns the copy's handle next to the error of Delete.
MoveToLocationHandle(newFile, delErr) == newFile

MoveToFile(family) ==
    \E i \in CopyToFileInputs(family) :
        LET c == CopyToFileResult(family, i)
        IN  IF ~MoveDeletes(c.err)
            THEN Returned("MoveToFile", family, c, NoDelete(c.h), c.err)
            ELSE \E j \in MoveDeleteInputs(c.h) :
                    LET dl == DeleteOn(c.h, j.rm, j.hs, j.del)
                    IN  Returned("MoveToFile", family, c, dl, dl.err)

MoveToLocation(family) ==
    \E i \in CopyToLocationInputs(family) :
        LET c == CopyToLocationResult(family, i)
        IN  IF ~MoveDeletes(c.err)
            THEN Returned("MoveToLocation", family, c, NoDelete(c.h), c.err)
            ELSE \E j \in MoveDeleteInputs(c.h) :
                    LET dl == DeleteOn(c.h, j.rm, j.hs, j.del)
                    IN  Returned("MoveToLocation", family,
                                 [c EXCEPT !.newFile = MoveToLocationHandle(c.newFile, dl.err)],
                                 dl, dl.err)

\* ------------------------------------------------------------------- Next
Next ==
    \/ NewFile
    \/ \E data \in Payloads : Write(data)
    \/ Close
    \/ Delete
    \/ \E n \in 1..MaxBuf : Read(n)
    \/ \E offset \in -1..1, whence \in 0..2 : Seek(offset, whence)

Spec == Init /\ [][Next]_vars

\* No copy or move has been made yet.
Fresh == last.op \notin {"CopyToFile", "CopyToLocation", "MoveToFile", "MoveToLocation"}

\* The handle used as the source of copies and moves. A behaviour ends at its
\* first copy or move: every state reached after one is also reached by a
\* behaviour that calls it last, so the reachable states are the same as with
\* the calls going on, and each is there with every call made on it.
CopyNext ==
    \/ Fresh /\ NewFile
    \/ Fresh /\ \E data \in Payloads : Write(data)
    \/ Fresh /\ \E rm \in RemoveFor : \E u \in UploadFor(writeBuffer, rm) :
                \E hs \in Steady(HeadsFor(writeBuffer, rm, u[1])) : CloseWith(rm, u, hs)
    \/ Fresh /\ \E n \in 1..MaxBuf : Read(n)
    \/ Fresh /\ \E family \in Families : CopyToFile(family)
    \/ Fresh /\ \E family \in Families : CopyToLocation(family)
    \/ Fresh /\ \E family \in Families : MoveToFile(family)
    \/ Fresh /\ \E family \in Families : MoveToLocation(family)

CopySpec == Init /\ [][CopyNext]_vars

\* ------------------------------------- waitUntilFileExists on its own
\* One call of waitUntilFileExists with any budget and any answers of the store.
WaitUntilFileExists(mock, retries, hs) ==
    /\ ~poll.called
    /\ poll' = LET w == waitUntilFileExists(mock, retries, hs)
               IN  [called |-> TRUE, mock |-> mock, retries |-> retries, hs |-> hs,
                    err |-> w.err, calls |-> w.calls, sleeps |-> w.sleeps]
    /\ UNCHANGED <<store, tempFile, writeBuffer, leaked, written, resubmit, got, expect, last>>

\* One call of File.Exists, HeadObject answering head.
ExistsCall(head) ==
    /\ last' = LET e == Exists(head)
               IN  [Obs("Exists") EXCEPT !.head = head, !.found = e.found, !.heads = 1,
                                         !.err = IF e.err = "nil" THEN NoErr ELSE <<e.err>>]
    /\ UNCHANGED <<store, tempFile, writeBuffer, leaked, written, resubmit, got, expect, poll>>

PollNext ==
    \/ \E mock \in BOOLEAN, retries \in -1..MaxBudget, hs \in [1..MaxBudget + 1 -> HeadOutcomes] :
            WaitUntilFileExists(mock, retries, hs)
    \/ \E head \in HeadOutcomes : ExistsCall(head)

PollSpec == Init /\ [][PollNext]_vars

\* ================================================================ claims
HasErr(e) == \E i \in 1..Len(last.err) : last.err[i] = e
NoRequests == last.heads = 0 /\ last.gets = 0 /\ last.puts = 0 /\ last.dels = 0
\* The Close (not the one inside Delete) committed the buffer it held.
Committed == last.op = "Close" /\ last.puts = 1 /\ ~HasErr("UploadErr")

\* C1: the bytes given to Write on a new handle, committed by a Close whose
\* store-write succeeds, are exactly what a handle gets that then makes its
\* temp file from the object and reads it from the start to the end of the stream.
C1_RoundTrip ==
    (last.op = "Read" /\ last.err = <<"EOF">> /\ got.seq /\ tempFile.src.valid)
        => got.bytes = tempFile.src.data

\* C1 witness: a new handle has read to the end the two payloads another
\* handle wrote and committed.
C1_Witness ==
    /\ last.op = "Read" /\ last.err = <<"EOF">> /\ got.seq
    /\ tempFile.src.valid /\ ~tempFile.src.own
    /\ got.bytes = <<1, 2>>

\* C2: a store-write is issued only by Close, every Close that holds a write
\* buffer issues exactly one store-write that carries all the bytes written
\* to the buffer, and Write issues no remote request.
C2_CommitOnlyAtClose ==
    /\ (last.puts > 0 => last.op = "Close")
    /\ (last.op = "Close" /\ last.hadBuf => last.puts = 1 /\ last.body = last.accum)
    /\ (last.op = "Write" => NoRequests)

\* C3: a Close of a handle that holds a temp file and a write buffer still
\* attempts the store-write when removing the temp file fails.
C3_CloseAttemptsEveryStep ==
    (last.op = "Close" /\ last.hadTemp /\ last.hadBuf /\ HasErr("RemoveErr"))
        => last.puts = 1

\* C4: a Close whose store-write fails returns the error and leaves the
\* handle without a write buffer, so that no later Close submits it again.
C4_AtMostOnceSubmission ==
    /\ (last.op = "Close" /\ HasErr("UploadErr") => ~writeBuffer.alloc)
    /\ ~resubmit

\* C5: after any Close the handle holds neither a temp file nor a write buffer.
C5_CloseReleasesBoth ==
    last.op = "Close" => tempFile = NoFile /\ writeBuffer = NilBuffer

\* C6: a Close of a handle that holds neither a temp file nor a write buffer
\* returns no error, leaves the handle as it was and issues no remote request.
C6_IdempotentClose ==
    (last.op = "Close" /\ ~last.hadTemp /\ ~last.hadBuf)
        => /\ last.err = NoErr
           /\ tempFile = NoFile /\ writeBuffer = NilBuffer
           /\ NoRequests

\* C7: Close waits for the object to be visible if and only if it has made a
\* successful store-write.
C7_PollOnlyAfterWrite ==
    last.op = "Close" => ((last.pollErr # "none" \/ last.heads > 0) <=> Committed)

\* C8: a Close whose store-write succeeds and whose wait for the object then
\* fails returns an error.
C8_PollFailureReturned ==
    (Committed /\ last.pollErr \in {"Timeout", "PollError"}) => last.err # NoErr

\* The place of the first true among the first n answers, 0 when there is none.
FirstFound(hs, n) ==
    IF \E i \in 1..n : hs[i] = "OK"
    THEN CHOOSE i \in 1..n : hs[i] = "OK" /\ \A j \in 1..(i - 1) : hs[j] # "OK"
    ELSE 0

\* C9: with a budget of N >= 0 retries and Exists answering only true or
\* false, the wait makes up to N + 1 checks: it succeeds at the first check
\* that answers true, and ends with Timeout only when all N + 1 answer false.
C9_BudgetIsRetries ==
    (/\ poll.called /\ ~poll.mock /\ poll.retries >= 0
     /\ \A i \in 1..(poll.retries + 1) : poll.hs[i] = "OK" \/ NotFoundAnswer(poll.hs[i]))
        => LET i == FirstFound(poll.hs, poll.retries + 1)
           IN  IF i > 0 THEN poll.err = "nil" /\ poll.calls = i
               ELSE poll.err = "Timeout"

\* The place of the first answer among the first n that is not a not-found.
FirstDecisive(hs, n) ==
    IF \E i \in 1..n : ~NotFoundAnswer(hs[i])
    THEN CHOOSE i \in 1..n : ~NotFoundAnswer(hs[i]) /\ \A j \in 1..(i - 1) : NotFoundAnswer(hs[j])
    ELSE 0

\* C10: when a check of the wait fails with an error that is not a not-found,
\* the wait ends there with PollError, which is not the Timeout error: it
\* makes no further Exists call and sleeps no more. Timeout is returned only
\* when no check failed.
C10_ErrorAbortsPoll ==
    (poll.called /\ ~poll.mock /\ poll.retries >= 0)
        => LET i == FirstDecisive(poll.hs, poll.retries)
           IN  /\ (i > 0 /\ poll.hs[i] # "OK")
                    => /\ poll.err = "PollError" /\ poll.err # "Timeout"
                       /\ poll.calls = i /\ poll.sleeps = i - 1
               /\ (poll.err = "Timeout"
                    => \A j \in 1..poll.calls : NotFoundAnswer(poll.hs[j]))

\* C10 witness: the second check fails with a request error while the budget
\* and the answers would have let a third check find the object.
C10_Witness ==
    /\ poll.called /\ ~poll.mock /\ poll.retries = 3
    /\ poll.hs[1] = "NotFound" /\ poll.hs[2] = "RequestError" /\ poll.hs[3] = "OK"
    /\ poll.err = "PollError" /\ poll.calls = 2 /\ poll.sleeps = 1

\* C11: Exists answers (false, nil) exactly when HeadObject fails with a
\* no-such-key or not-found code, (true, nil) when HeadObject succeeds, and
\* (false, the error) for every other failure.
C11_ExistsDistinguishesErrors ==
    last.op = "Exists"
        => /\ ((~last.found /\ last.err = NoErr) <=> NotFoundAnswer(last.head))
           /\ (last.head = "OK" => last.found /\ last.err = NoErr)
           /\ (last.head # "OK" /\ ~NotFoundAnswer(last.head)
                 => ~last.found /\ last.err = <<last.head>>)

\* C11 witness: a request error of HeadObject came back as an error, and is
\* not reported as a missing object.
C11_Witness ==
    last.op = "Exists" /\ last.head = "RequestError" /\ ~last.found /\ last.err # NoErr

MoveOps == {"MoveToFile", "MoveToLocation"}
CopyOps == {"CopyToFile", "CopyToLocation"}

\* C12: a move whose copy failed sends no DeleteObject, returns the error of
\* the copy and no handle, and leaves the source object as it was; a
\* DeleteObject is sent only after a copy that returned nil.
C12_MoveDeletesAfterCopy ==
    [][last'.op \in MoveOps
        => /\ last'.copyErr # NoErr
                => /\ last'.dels = 0 /\ last'.err = last'.copyErr /\ ~last'.newFile
                   /\ store' = store
           /\ last'.dels > 0 => last'.copyErr = NoErr /\ last'.target.done]_vars

\* C12 witness: the stream copy of a move failed at the target's Write; the
\* source object is still in the bucket and no DeleteObject was sent.
C12_Witness ==
    /\ last.op = "MoveToLocation" /\ last.family = "other"
    /\ last.copyErr = <<"WriteErr">> /\ last.err = <<"WriteErr">>
    /\ last.dels = 0 /\ store.exists /\ store.data = <<1, 2>>

\* C13: when the copy of MoveToLocation succeeded and its Delete failed, the
\* call returns the handle of the copy together with the error of Delete, and
\* the copy is in place.
C13_MoveReturnsHandleAndError ==
    (last.op = "MoveToLocation" /\ last.copyErr = NoErr)
        => /\ last.newFile /\ last.target.done
           /\ last.closeErr # NoErr => last.err = last.closeErr /\ last.dels = 0
           /\ last.closeErr = NoErr => last.dels = 1 /\ last.err \in {NoErr, <<"DeleteErr">>}

\* C13 witness: the object was copied within S3, DeleteObject failed, and the
\* call returned the new handle with the error; both objects exist.
C13_Witness ==
    /\ last.op = "MoveToLocation" /\ last.family = "s3" /\ last.copyErr = NoErr
    /\ last.err = <<"DeleteErr">> /\ last.newFile
    /\ last.target.done /\ last.target.data = <<1, 2>> /\ store.exists

\* C14: a copy or move to a target of the S3 family sends exactly one
\* CopyObject, no GetObject and no PutObject, runs no stream copy, and a
\* copy leaves the handle's temp file as it was.
C14_NativeCopyOnly ==
    (last.op \in CopyOps \cup MoveOps /\ last.family = "s3")
        => /\ last.copies = 1 /\ last.gets = 0 /\ last.puts = 0 /\ ~last.streamed
           /\ last.op \in CopyOps => (tempFile # NoFile <=> last.hadTemp)

\* C14 witness: CopyToFile within S3 from a handle that never read: the target
\* holds the object and the handle still has no temp file.
C14_Witness ==
    /\ last.op = "CopyToFile" /\ last.family = "s3" /\ last.err = NoErr
    /\ last.copies = 1 /\ last.target.data = <<1, 2>> /\ tempFile = NoFile

\* C15: a copy to another backend that returns an error leaves the target
\* not open and the handle without temp file.
C15_CrossCopyReleasesOnFailure ==
    (last.op \in CopyOps /\ last.family = "other" /\ last.err # NoErr)
        => ~last.target.open /\ tempFile = NoFile

\* C16: Delete of a handle that holds a write buffer sends no PutObject, and
\* the handle holds no write buffer afterwards.
C16_DeleteDropsBuffer ==
    (last.op = "Delete" /\ last.hadBuf) => last.puts = 0 /\ writeBuffer = NilBuffer

\* C16 witness: Delete ran on a handle with two accepted bytes, sent the
\* DeleteObject and no PutObject.
C16_Witness ==
    /\ last.op = "Delete" /\ last.hadBuf /\ last.accum = <<1, 2>>
    /\ last.puts = 0 /\ last.dels = 1 /\ writeBuffer = NilBuffer

MirrorErrs == {<<"TempFileErr">>, <<"NoSuchKey">>, <<"GetErr">>, <<"CopyErr">>, <<"SeekErr">>}

\* C17: a Read or Seek on a handle that has its temp file sends no GetObject
\* and keeps the file's content; on a handle without one it runs the fetch
\* anew, and the handle gets a temp file only when the whole fetch succeeded,
\* the file then holding the whole object.
C17_MirrorOnceAndWhole ==
    [][last'.op \in {"Read", "Seek"}
        => /\ tempFile # NoFile
                => last'.gets = 0 /\ tempFile' # NoFile /\ tempFile'.data = tempFile.data
           /\ tempFile = NoFile
                => /\ last'.gets = 1 \/ last'.err = <<"TempFileErr">>
                   /\ (last'.err \in MirrorErrs <=> tempFile' = NoFile)
                   /\ tempFile' # NoFile => store.exists /\ tempFile'.data = store.data]_vars

\* C17 witness: a second Read on the same temp file returned the second
\* byte without a GetObject.
C17_Witness ==
    /\ last.op = "Read" /\ last.gets = 0 /\ last.data = <<2>>
    /\ tempFile # NoFile /\ tempFile.pos = 2

\* C18: the wait with a budget of -1 returns nil at once without a call of
\* Exists; with a budget of N >= 0 it returns after at most N sleeps, with
\* nil, the timeout error or the check error, whatever HeadObject answers.
C18_PollWithinBudget ==
    (poll.called /\ ~poll.mock)
        => /\ poll.retries = -1 => poll.err = "nil" /\ poll.calls = 0 /\ poll.sleeps = 0
           /\ poll.retries >= 0
                => /\ poll.sleeps <= poll.retries /\ poll.calls <= poll.retries
                   /\ poll.err \in {"nil", "Timeout", "PollError"}

\* C18 witness: the object never shows within a budget of three, and the wait
\* ends with the timeout error after three sleeps.
C18_Witness ==
    /\ poll.called /\ ~poll.mock /\ poll.retries = 3
    /\ \A i \in 1..3 : NotFoundAnswer(poll.hs[i])
    /\ poll.err = "Timeout" /\ poll.sleeps = 3

\* C19: Delete sends DeleteObject exactly when its Close returned nil; when
\* Close returned an error, Delete returns that error and the object stays
\* as it was.
C19_DeleteAfterClose ==
    [][last'.op = "Delete"
        => /\ last'.dels = 1 <=> last'.closeErr = NoErr
           /\ last'.closeErr # NoErr => last'.err = last'.closeErr /\ store' = store]_vars

\* C19 witness: Close failed inside Delete, no DeleteObject was sent and the
\* object is still there.
C19_Witness ==
    last.op = "Delete" /\ last.closeErr # NoErr /\ last.dels = 0 /\ store.exists

\* C20: no temp file made by the fetch is left on disk without the handle
\* referring to it.
C20_NoTempLeak == leaked = 0
====
